---- MODULE Spec2Model ----
(***************************************************************************)
(* Model of norac_scraper.py: the runner (__main__), one scrape cycle      *)
(* (scrape_and_save: fetch_projects, parse_projects, save_projects) and    *)
(* the SQLite store with its two tables, projects and changes.             *)
(*                                                                         *)
(* The store is modelled twice: disk is what is committed, conn is what    *)
(* the open connection of save_projects sees (its uncommitted              *)
(* transaction).  A row of projects is the 7-tuple the SELECT returns,     *)
(* <<list_id, title, location, budget, status, description,                *)
(* last_updated>>, because the code reads it by position.                  *)
(*                                                                         *)
(* Time is read at the grain of one cycle: every datetime.now() of a cycle *)
(* returns that cycle's number, as the text the sqlite3 adapter stores.    *)
(* Storage operations may raise (connect, execute, commit); a raising      *)
(* execute is undone alone or takes the open transaction with it.          *)
(***************************************************************************)
EXTENDS Integers, Sequences, FiniteSets, TLC

\* ------------------------------------------------------------- bounds
\* Number of scrape cycles the runner starts (the loop itself is unbounded).
MaxCycles == 2
\* Number of records parse_projects returns over all cycles together.
MaxRecords == 3
\* Number of storage operations (connect, execute, commit) that raise.
MaxFaults == 2

\* ------------------------------------------------------------- constants
\* @retry(tries=3, delay=2)
Tries == 3

\* Python None / SQL NULL.
None == "<None>"

\* fields = ['title', 'location', 'budget', 'status', 'description']
fields == <<"title", "location", "budget", "status", "description">>

\* Values list_id takes: two ordinary ids, the empty string (href ending in
\* "//") and None (no property-title-link anchor).
ValidIds == {"a", "b"}
ListIds == ValidIds \cup {"", None}

VARIABLES
    pc,        \* position of the main program
    clock,     \* number of cycles started; datetime.now() reads it
    tries,     \* failed attempts of the fetch_projects call in progress
    batch,     \* the list parse_projects returned in the current cycle
    idx,       \* position of save_projects' for loop in batch (1-based)
    conn,      \* store as seen by the open connection
    disk,      \* committed store
    outcomes,  \* per record of batch: what save_projects printed for it
    status,    \* how the last cycle ended
    tables,    \* TRUE once the two tables exist
    parsed,    \* records parse_projects has returned so far
    faults     \* storage operations that have raised so far

vars == <<pc, clock, tries, batch, idx, conn, disk, outcomes, status,
          tables, parsed, faults>>

\* ------------------------------------------------------------- helpers
IsPrefix(s, t) == Len(s) <= Len(t) /\ SubSeq(t, 1, Len(s)) = s

\* datetime.now(), as the sqlite3 adapter binds it (text).
DatetimeNow(t) == ToString(t)

\* SQL "=": never true of NULL.
SqlEquals(a, b) == a # None /\ b # None /\ a = b

\* fields.index(field)
FieldIndex(f) == CHOOSE i \in 1..Len(fields) : fields[i] = f

\* A record as parse_projects appends it.
MakeProject(id, j) ==
    [list_id |-> id,
     title |-> IF 1 <= j THEN "y" ELSE "x",
     location |-> IF 2 <= j THEN "y" ELSE "x",
     budget |-> IF 3 <= j THEN "y" ELSE "x",
     status |-> IF 4 <= j THEN "y" ELSE "x",
     description |-> IF 5 <= j THEN "y" ELSE "x"]

\* Field contents: variant j has "y" in its first j tracked fields, "x" in
\* the others, so two variants differ in 0 to 5 fields.
Variants == {0, 1, 3, 5}

\* Id "a" comes in every variant, the other ids in one.
Projects ==
    {MakeProject("a", j) : j \in Variants}
    \cup {MakeProject(id, 0) : id \in ListIds \ {"a"}}

Batches(n) == UNION {[1..k -> Projects] : k \in 0..n}

EmptyStore == [projects |-> <<>>, changes |-> <<>>]

\* ------------------------------------------------------------- SQL statements
\* SELECT * FROM projects WHERE list_id = ? ; fetchone(): the first matching
\* row's position, 0 for None.
SelectProject(store, id) ==
    LET hits == {i \in 1..Len(store.projects) : SqlEquals(store.projects[i][1], id)}
    IN IF hits = {} THEN 0 ELSE CHOOSE i \in hits : \A k \in hits : i <= k

\* InsertProject with the budget and status parameters in each other's place.
InsertProjectSwapped(store, project, now) ==
    [store EXCEPT !.projects = Append(@,
        <<project.list_id, project.title, project.location, project.status,
          project.budget, project.description, now>>)]

\* INSERT INTO projects (...) VALUES (?, ?, ?, ?, ?, ?, ?)
InsertProject(store, project, now) ==
    [store EXCEPT !.projects = Append(@,
        <<project.list_id, project.title, project.location, project.budget,
          project.status, project.description, now>>)]

\* UpdateProjects without its WHERE clause: every row is overwritten.
UpdateProjectsEveryRow(store, values) ==
    [store EXCEPT !.projects =
        [i \in 1..Len(@) |->
            <<@[i][1], values[1], values[2], values[3], values[4],
              values[5], values[6]>>]]

\* UPDATE projects SET title = ?, location = ?, budget = ?, status = ?,
\* description = ?, last_updated = ? WHERE list_id = ?  with the 7 parameters
\* bound by position.
UpdateProjects(store, values) ==
    [store EXCEPT !.projects =
        [i \in 1..Len(@) |->
            IF SqlEquals(@[i][1], values[7])
            THEN <<@[i][1], values[1], values[2], values[3], values[4],
                   values[5], values[6]>>
            ELSE @[i]]]

\* InsertChange with its first two parameters in each other's place: the
\* field's name lands in list_id.
InsertChangeMisbound(store, id, change, now) ==
    [store EXCEPT !.changes = Append(@,
        [id |-> Len(@) + 1,
         list_id |-> change.field_name,
         field_name |-> id,
         old_value |-> change.old_value,
         new_value |-> change.new_value,
         change_date |-> now])]

\* InsertChange as INSERT OR REPLACE keyed by (list_id, field_name): an entry
\* already logged for the same id and field is overwritten.
InsertChangeReplacing(store, id, change, now) ==
    LET entry == [id |-> Len(store.changes) + 1,
                  list_id |-> id,
                  field_name |-> change.field_name,
                  old_value |-> change.old_value,
                  new_value |-> change.new_value,
                  change_date |-> now]
        same == {i \in 1..Len(store.changes) :
                    /\ store.changes[i].list_id = id
                    /\ store.changes[i].field_name = change.field_name}
    IN IF same = {}
       THEN [store EXCEPT !.changes = Append(@, entry)]
       ELSE [store EXCEPT !.changes =
                [i \in 1..Len(@) |-> IF i \in same THEN entry ELSE @[i]]]

\* INSERT INTO changes (list_id, field_name, old_value, new_value, change_date)
InsertChange(store, id, change, now) ==
    [store EXCEPT !.changes = Append(@,
        [id |-> Len(@) + 1,
         list_id |-> id,
         field_name |-> change.field_name,
         old_value |-> change.old_value,
         new_value |-> change.new_value,
         change_date |-> now])]

\* ------------------------------------------------------------- save_projects
\* OldValue without the "+ 1" that skips list_id.
OldValueNoSkip(existing, field) == existing[FieldIndex(field)]

\* old_value = existing[fields.index(field) + 1]
OldValue(existing, field) == existing[FieldIndex(field) + 1]

\* Differs with the comparison dropped: every field counts as changed.
DiffersAlways(old_value, new_value) == TRUE

\* if old_value != new_value
Differs(old_value, new_value) == old_value # new_value

\* The list "changes" built by the comparison loop, in field order.
FieldChanges(existing, project) ==
    LET all == [i \in 1..Len(fields) |->
                   [field_name |-> fields[i],
                    old_value |-> OldValue(existing, fields[i]),
                    new_value |-> project[fields[i]]]]
    IN SelectSeq(all, LAMBDA c : Differs(c.old_value, c.new_value))

\* values = [project[field] for field in fields]
\* values.extend([project['list_id'], datetime.now()])
UpdateValues(project, now) ==
    <<project.title, project.location, project.budget, project.status,
      project.description, project.list_id, now>>

\* The first n passes of "for change in changes: cursor.execute(INSERT ...)".
RECURSIVE LogChanges(_, _, _, _, _)
LogChanges(store, id, changes, n, now) ==
    IF n = 0 THEN store
    ELSE InsertChange(LogChanges(store, id, changes, n - 1, now), id, changes[n], now)

\* Number of cursor.execute calls one pass of the for loop makes.
NumStatements(store, project) ==
    LET at == SelectProject(store, project.list_id)
    IN IF at = 0 THEN 2
       ELSE LET changes == FieldChanges(store.projects[at], project)
            IN IF changes = <<>> THEN 1 ELSE 2 + Len(changes)

\* What the pass prints: "New project added", "Project updated (n changes)",
\* "No changes detected" or "Error processing project".
Outcome(kind, n) == [kind |-> kind, n |-> n]

\* One pass of the for loop over projects.  fault = 0: no statement raises;
\* fault = s: the s-th cursor.execute of the pass raises, the statements before
\* it keep their effect, the except clause prints and continues.
ProcessProject(store, project, fault, now) ==
    LET at == SelectProject(store, project.list_id)
    IN IF fault = 1 THEN [store |-> store, outcome |-> Outcome("error", 0)]
       ELSE IF at = 0
       THEN IF fault = 2
            THEN [store |-> store, outcome |-> Outcome("error", 0)]
            ELSE [store |-> InsertProject(store, project, now),
                  outcome |-> Outcome("new", 0)]
       ELSE LET changes == FieldChanges(store.projects[at], project)
                updated == UpdateProjects(store, UpdateValues(project, now))
            IN IF changes = <<>>
               THEN [store |-> store, outcome |-> Outcome("unchanged", 0)]
               ELSE IF fault = 2
               THEN [store |-> store, outcome |-> Outcome("error", 0)]
               ELSE IF fault > 2
               THEN [store |-> LogChanges(updated, project.list_id, changes,
                                          fault - 3, now),
                     outcome |-> Outcome("error", 0)]
               ELSE [store |-> LogChanges(updated, project.list_id, changes,
                                          Len(changes), now),
                     outcome |-> Outcome("updated", Len(changes))]

\* save_projects' whole for loop when no statement raises: the store after it
\* and what it printed per record.
RECURSIVE SaveProjects(_, _, _)
SaveProjects(store, projects, now) ==
    IF projects = <<>> THEN [store |-> store, outcomes |-> <<>>]
    ELSE LET first == ProcessProject(store, Head(projects), 0, now)
             rest == SaveProjects(first.store, Tail(projects), now)
         IN [store |-> rest.store, outcomes |-> <<first.outcome>> \o rest.outcomes]

\* ------------------------------------------------------------- the program
\* The database file outlives the process (CREATE TABLE IF NOT EXISTS): what
\* earlier runs of the program saved, batch by batch.  None; project "a"; or
\* project "a" and then the same project with another title.
PriorRuns ==
    {<<>>,
     <<(<<MakeProject("a", 0)>>)>>,
     <<(<<MakeProject("a", 0)>>), (<<MakeProject("a", 1)>>)>>}

\* The store those earlier runs left behind.
RECURSIVE StoreAfter(_)
StoreAfter(runs) ==
    IF runs = <<>> THEN EmptyStore
    ELSE SaveProjects(StoreAfter(SubSeq(runs, 1, Len(runs) - 1)),
                      runs[Len(runs)], DatetimeNow(0)).store

InitialStores == {StoreAfter(runs) : runs \in PriorRuns}

Init ==
    /\ pc = "setup"
    /\ clock = 0
    /\ tries = 0
    /\ batch = <<>>
    /\ idx = 1
    /\ disk \in InitialStores
    /\ conn = disk
    /\ outcomes = <<>>
    /\ status = "none"
    /\ tables = FALSE
    /\ parsed = 0
    /\ faults = 0

\* setup_database(): CREATE TABLE IF NOT EXISTS, twice; commit; close.
SetupDatabase ==
    /\ pc = "setup"
    /\ tables' = TRUE
    /\ pc' = "initial"
    /\ UNCHANGED <<clock, tries, batch, idx, conn, disk, outcomes, status,
                   parsed, faults>>

\* Whether a storage operation may succeed (TRUE) or raise (FALSE).
StorageResults == IF faults < MaxFaults THEN BOOLEAN ELSE {TRUE}

\* Entry of scrape_and_save: this cycle's state replaces the last cycle's.
BeginCycle ==
    /\ clock < MaxCycles
    /\ clock' = clock + 1
    /\ tries' = 0
    /\ batch' = <<>>
    /\ outcomes' = <<>>
    /\ idx' = 1
    /\ status' = "running"
    /\ pc' = "fetch"
    /\ UNCHANGED <<conn, disk, tables, parsed, faults>>

\* InitialScrape without the call of scrape_and_save: the program goes
\* straight to its loop and the first cycle waits for the schedule.
InitialScrapeSkipped ==
    /\ pc = "initial"
    /\ pc' = "loop"
    /\ UNCHANGED <<clock, tries, batch, idx, conn, disk, outcomes, status,
                   tables, parsed, faults>>

\* schedule.every().hour.do(scrape_and_save); scrape_and_save()
InitialScrape ==
    /\ pc = "initial"
    /\ BeginCycle

\* RunPending with the job started on a thread of its own: a due job starts
\* whether or not the cycle before it has returned.
RunPendingOverlapping ==
    \/ /\ pc \in {"loop", "fetch", "parse", "connect", "save"}
       /\ BeginCycle
    \/ /\ pc = "loop"
       /\ pc' = "sleep"
       /\ UNCHANGED <<clock, tries, batch, idx, conn, disk, outcomes, status,
                      tables, parsed, faults>>

\* schedule.run_pending(): the job runs if its hour has elapsed.
RunPending ==
    /\ pc = "loop"
    /\ \E elapsed \in BOOLEAN :
        IF elapsed
        THEN BeginCycle
        ELSE /\ pc' = "sleep"
             /\ UNCHANGED <<clock, tries, batch, idx, conn, disk, outcomes, status,
                         tables, parsed, faults>>

\* time.sleep(60)
Sleep ==
    /\ pc = "sleep"
    /\ pc' = "loop"
    /\ UNCHANGED <<clock, tries, batch, idx, conn, disk, outcomes, status,
                         tables, parsed, faults>>

\* FetchProjects with the last failure swallowed (returning no page) instead
\* of raised: the cycle goes on to parse and save.
FetchProjectsSwallowing ==
    /\ pc = "fetch"
    /\ \E ok \in BOOLEAN :
        IF ok
        THEN /\ pc' = "parse"
             /\ tries' = 0
             /\ UNCHANGED status
        ELSE IF tries + 1 < Tries
        THEN /\ tries' = tries + 1
             /\ UNCHANGED <<pc, status>>
        ELSE /\ tries' = 0
             /\ status' = "fetch_failed"
             /\ pc' = "parse"
    /\ UNCHANGED <<clock, batch, idx, conn, disk, outcomes, tables, parsed, faults>>

\* One attempt of fetch_projects under @retry(tries=3): success returns the
\* page; a failure is retried until the third, which raises into
\* scrape_and_save's except clause.
FetchProjects ==
    /\ pc = "fetch"
    /\ \E ok \in BOOLEAN :
        IF ok
        THEN /\ pc' = "parse"
             /\ tries' = 0
             /\ UNCHANGED status
        ELSE IF tries + 1 < Tries
        THEN /\ tries' = tries + 1
             /\ UNCHANGED <<pc, status>>
        ELSE /\ tries' = 0
             /\ status' = "fetch_failed"
             /\ pc' = "loop"
    /\ UNCHANGED <<clock, batch, idx, conn, disk, outcomes, tables, parsed, faults>>

\* parse_projects(html_content): the records of the items that parsed.
ParseProjects ==
    /\ pc = "parse"
    /\ \E b \in Batches(MaxRecords - parsed) :
        /\ batch' = b
        /\ parsed' = parsed + Len(b)
    /\ pc' = "connect"
    /\ UNCHANGED <<clock, tries, idx, conn, disk, outcomes, status, tables, faults>>

\* save_projects: sqlite3.connect; conn.cursor().  A failure raises into
\* scrape_and_save's except clause.
Connect ==
    /\ pc = "connect"
    /\ \E ok \in StorageResults :
        IF ok
        THEN /\ conn' = disk
             /\ idx' = 1
             /\ pc' = "save"
             /\ UNCHANGED <<status, faults>>
        ELSE /\ status' = "connect_failed"
             /\ pc' = "loop"
             /\ faults' = faults + 1
             /\ UNCHANGED <<conn, idx>>
    /\ UNCHANGED <<clock, tries, batch, disk, outcomes, tables, parsed>>

\* ProcessRecord with a record whose list_id is None or "" ending the loop
\* (break) instead of being handled by the pass.
ProcessRecordBreaking ==
    /\ pc = "save"
    /\ idx <= Len(batch)
    /\ IF batch[idx].list_id = None \/ batch[idx].list_id = ""
       THEN /\ idx' = Len(batch) + 1
            /\ outcomes' = outcomes \o [i \in 1..(Len(batch) - idx + 1) |-> Outcome("unchanged", 0)]
            /\ UNCHANGED <<conn, faults>>
       ELSE /\ \/ LET res == ProcessProject(conn, batch[idx], 0, DatetimeNow(clock))
                    IN /\ conn' = res.store
                       /\ outcomes' = Append(outcomes, res.outcome)
                       /\ UNCHANGED faults
               \/ /\ faults < MaxFaults
                  /\ \E fault \in 1..NumStatements(conn, batch[idx]), rollback \in BOOLEAN :
                       LET res == ProcessProject(conn, batch[idx], fault, DatetimeNow(clock))
                       IN /\ conn' = IF rollback THEN disk ELSE res.store
                          /\ outcomes' = Append(outcomes, res.outcome)
                  /\ faults' = faults + 1
            /\ idx' = idx + 1
    /\ UNCHANGED <<pc, clock, tries, batch, disk, status, tables, parsed>>

\* ProcessRecord on a connection in autocommit mode (isolation_level=None):
\* what a pass writes is committed at once.
ProcessRecordAutocommit ==
    /\ pc = "save"
    /\ idx <= Len(batch)
    /\ \/ LET res == ProcessProject(conn, batch[idx], 0, DatetimeNow(clock))
          IN /\ conn' = res.store
             /\ disk' = res.store
             /\ outcomes' = Append(outcomes, res.outcome)
             /\ UNCHANGED faults
       \/ /\ faults < MaxFaults
          /\ \E fault \in 1..NumStatements(conn, batch[idx]) :
               LET res == ProcessProject(conn, batch[idx], fault, DatetimeNow(clock))
               IN /\ conn' = res.store
                  /\ disk' = res.store
                  /\ outcomes' = Append(outcomes, res.outcome)
          /\ faults' = faults + 1
    /\ idx' = idx + 1
    /\ UNCHANGED <<pc, clock, tries, batch, status, tables, parsed>>

\* save_projects: one pass of "for project in projects".  A raising statement
\* is undone alone, or SQLite rolls the whole open transaction back.
ProcessRecord ==
    /\ pc = "save"
    /\ idx <= Len(batch)
    /\ \/ LET res == ProcessProject(conn, batch[idx], 0, DatetimeNow(clock))
          IN /\ conn' = res.store
             /\ outcomes' = Append(outcomes, res.outcome)
             /\ UNCHANGED faults
       \/ /\ faults < MaxFaults
          /\ \E fault \in 1..NumStatements(conn, batch[idx]), rollback \in BOOLEAN :
               LET res == ProcessProject(conn, batch[idx], fault, DatetimeNow(clock))
               IN /\ conn' = IF rollback THEN disk ELSE res.store
                  /\ outcomes' = Append(outcomes, res.outcome)
          /\ faults' = faults + 1
    /\ idx' = idx + 1
    /\ UNCHANGED <<pc, clock, tries, batch, disk, status, tables, parsed>>

\* Commit outside any try: a failing commit ends the process.
CommitFatal ==
    /\ pc = "save"
    /\ idx > Len(batch)
    /\ \E ok \in StorageResults :
        IF ok
        THEN /\ disk' = conn
             /\ conn' = conn
             /\ status' = "saved"
             /\ pc' = "loop"
             /\ UNCHANGED faults
        ELSE /\ disk' = disk
             /\ conn' = disk
             /\ status' = "commit_failed"
             /\ pc' = "exited"
             /\ faults' = faults + 1
    /\ UNCHANGED <<clock, tries, batch, idx, outcomes, tables, parsed>>

\* save_projects: conn.commit(); conn.close().  A failing commit raises into
\* scrape_and_save's except clause and the transaction is lost.
Commit ==
    /\ pc = "save"
    /\ idx > Len(batch)
    /\ \E ok \in StorageResults :
        IF ok
        THEN /\ disk' = conn
             /\ conn' = conn
             /\ status' = "saved"
             /\ UNCHANGED faults
        ELSE /\ disk' = disk
             /\ conn' = disk
             /\ status' = "commit_failed"
             /\ faults' = faults + 1
    /\ pc' = "loop"
    /\ UNCHANGED <<clock, tries, batch, idx, outcomes, tables, parsed>>

Next ==
    \/ SetupDatabase
    \/ InitialScrape
    \/ RunPending
    \/ Sleep
    \/ FetchProjects
    \/ ParseProjects
    \/ Connect
    \/ ProcessRecord
    \/ Commit

Spec == Init /\ [][Next]_vars

\* run_pending finding the job due and calling scrape_and_save.
ScheduledScrape ==
    /\ pc = "loop"
    /\ BeginCycle

\* The process keeps running, and the clock keeps going: of the checks
\* run_pending makes, once a minute, some find the hour elapsed.
LiveSpec == Spec /\ WF_vars(Next) /\ SF_vars(ScheduledScrape)

\* ------------------------------------------------------------- vocabulary of the claims
\* list_id is present and non-empty.
IsValidId(id) == id # None /\ id # ""

\* The for loop of save_projects has ended; commit has not run yet, so disk is
\* still the store as the cycle found it.
LoopDone == pc = "save" /\ idx > Len(batch)

\* save_projects has committed and returned.
CycleSaved == pc \in {"loop", "sleep"} /\ status = "saved"

\* No record of the current batch hit a storage error.
Clean ==
    /\ Len(outcomes) = Len(batch)
    /\ \A i \in 1..Len(outcomes) : outcomes[i].kind # "error"

\* A pass of the for loop over batch[idx] that raised nothing.
CleanPass ==
    /\ pc = "save"
    /\ idx <= Len(batch)
    /\ idx' = idx + 1
    /\ Len(outcomes') = idx
    /\ outcomes'[idx].kind # "error"

\* The tracked fields (positions in fields) in which row and project differ.
DifferingFields(row, project) ==
    {i \in 1..Len(fields) : row[i + 1] # project[fields[i]]}

\* ------------------------------------------------------------- C1
\* C1: idempotence.  When a cycle has saved a batch of records with non-empty
\* ids without storage error, save_projects run at once again on the identical
\* batch appends no Change Entry and finds every record Unchanged.
C1_Idempotence ==
    (/\ CycleSaved
     /\ Clean
     /\ \A i \in 1..Len(batch) : IsValidId(batch[i].list_id))
    => LET again == SaveProjects(disk, batch, DatetimeNow(clock + 1))
       IN /\ again.store.changes = disk.changes
          /\ \A i \in 1..Len(again.outcomes) : again.outcomes[i].kind = "unchanged"

\* ------------------------------------------------------------- C2
\* C2: after a cycle that saved its batch without storage errors, for every
\* (non-empty) id of the batch the snapshot row's five tracked fields are those
\* of the last record with that id in the batch.
C2_SnapshotReflectsLastRecord ==
    (CycleSaved /\ Clean)
    => \A i \in 1..Len(batch) :
        (/\ IsValidId(batch[i].list_id)
         /\ \A j \in (i + 1)..Len(batch) : batch[j].list_id # batch[i].list_id)
        => LET at == SelectProject(disk, batch[i].list_id)
           IN /\ at # 0
              /\ DifferingFields(disk.projects[at], batch[i]) = {}

\* ------------------------------------------------------------- C3
\* C3: diff completeness.  A pass over a record whose id has a snapshot, k of
\* whose tracked fields differ from the stored ones, appends exactly k Change
\* Entries: one per differing field, with the record's id, the field's name,
\* the stored value as old_value and the incoming value as new_value; none for
\* an equal field; the entries already logged stay as they were.
C3_Holds ==
    LET project == batch[idx]
        at == SelectProject(conn, project.list_id)
        row == conn.projects[at]
        differing == DifferingFields(row, project)
        old == Len(conn.changes)
        added == (old + 1)..Len(conn'.changes)
    IN (CleanPass /\ at # 0)
       => /\ IsPrefix(conn.changes, conn'.changes)
          /\ Cardinality(added) = Cardinality(differing)
          /\ \A i \in differing : \E j \in added :
                /\ conn'.changes[j].list_id = project.list_id
                /\ conn'.changes[j].field_name = fields[i]
                /\ conn'.changes[j].old_value = row[i + 1]
                /\ conn'.changes[j].new_value = project[fields[i]]
          /\ \A j \in added : \E i \in differing :
                conn'.changes[j].field_name = fields[i]

\* C3: diff completeness, of every step of every behaviour.
C3_DiffCompleteness == [][C3_Holds]_vars

\* An update that found three differing fields and logged them.
C3_Witness ==
    /\ pc = "save"
    /\ \E i \in 1..Len(outcomes) : outcomes[i].kind = "updated" /\ outcomes[i].n = 3
    /\ Len(conn.changes) >= 3

\* ------------------------------------------------------------- C4
\* C4: new-entity invariant.  A pass over a record with a non-empty id that
\* has no snapshot creates exactly one row for that id, holding the record's
\* five field values, and appends no Change Entry.
C4_Holds ==
    LET project == batch[idx]
        rows == conn'.projects
    IN (/\ CleanPass
        /\ IsValidId(project.list_id)
        /\ SelectProject(conn, project.list_id) = 0)
       => /\ Len(rows) = Len(conn.projects) + 1
          /\ SubSeq(rows, 1, Len(conn.projects)) = conn.projects
          /\ Cardinality({i \in 1..Len(rows) : rows[i][1] = project.list_id}) = 1
          /\ rows[Len(rows)][1] = project.list_id
          /\ DifferingFields(rows[Len(rows)], project) = {}
          /\ conn'.changes = conn.changes

\* C4: the new-entity invariant, of every step of every behaviour.
C4_NewEntity == [][C4_Holds]_vars

\* A record with id "a" whose budget and status differ was inserted as new.
C4_Witness ==
    /\ pc = "save"
    /\ \E i \in 1..Len(outcomes) :
        /\ outcomes[i].kind = "new"
        /\ batch[i] = MakeProject("a", 3)
        /\ SelectProject(conn, "a") # 0

\* ------------------------------------------------------------- C5
\* C5: a record whose id is None or "" is skipped: no committed snapshot row
\* and no committed Change Entry ever carries such an id.
C5_MissingIdSkipped ==
    /\ \A i \in 1..Len(disk.projects) : IsValidId(disk.projects[i][1])
    /\ \A i \in 1..Len(disk.changes) : IsValidId(disk.changes[i].list_id)

\* ------------------------------------------------------------- C6
\* The rows and entries of the non-empty ids, in order; the entries without
\* their autoincrement id.
ValidPart(store) ==
    LET rows == SelectSeq(store.projects, LAMBDA r : IsValidId(r[1]))
        entries == SelectSeq(store.changes, LAMBDA c : IsValidId(c.list_id))
    IN [projects |-> rows,
        changes |-> [i \in 1..Len(entries) |->
                        <<entries[i].list_id, entries[i].field_name,
                          entries[i].old_value, entries[i].new_value,
                          entries[i].change_date>>]]

\* What was printed for the records with a non-empty id, in batch order.
RECURSIVE ValidOutcomes(_, _)
ValidOutcomes(projects, printed) ==
    IF projects = <<>> \/ printed = <<>> THEN <<>>
    ELSE IF IsValidId(Head(projects).list_id)
    THEN <<Head(printed)>> \o ValidOutcomes(Tail(projects), Tail(printed))
    ELSE ValidOutcomes(Tail(projects), Tail(printed))

\* C6: batch isolation.  When the for loop has run over a batch without a
\* storage error, the records with a non-empty id were created, updated or
\* left unchanged, and the store holds for their ids, exactly what the loop
\* yields on the same batch without its records whose id is None or "".
C6_BatchIsolation ==
    (LoopDone /\ Len(outcomes) = Len(batch)
        /\ \A i \in 1..Len(outcomes) : outcomes[i].kind # "error")
    => LET valid == SelectSeq(batch, LAMBDA p : IsValidId(p.list_id))
           alone == SaveProjects(disk, valid, DatetimeNow(clock))
       IN /\ ValidPart(conn) = ValidPart(alone.store)
          /\ ValidOutcomes(batch, outcomes) = alone.outcomes

\* A batch whose first record has no id and was handled, and whose second,
\* with id "a", was updated.
C6_Witness ==
    /\ LoopDone
    /\ Len(batch) = 2
    /\ Len(outcomes) = 2
    /\ batch[1].list_id = None
    /\ batch[2].list_id = "a"
    /\ outcomes[1].kind # "error"
    /\ outcomes[2].kind = "updated"

\* ------------------------------------------------------------- C7
\* C7: per-record atomicity.  After a cycle has committed, a record whose pass
\* raised (its id occurring once in the batch) has left nothing behind: no
\* Change Entry of this cycle carries its id and its snapshot row was not
\* written in this cycle.
C7_PerRecordAtomicity ==
    CycleSaved
    => \A i \in 1..Len(outcomes) :
        (/\ i <= Len(batch)
         /\ outcomes[i].kind = "error"
         /\ \A j \in 1..Len(batch) : j # i => batch[j].list_id # batch[i].list_id)
        => /\ \A k \in 1..Len(disk.changes) :
                ~(/\ disk.changes[k].list_id = batch[i].list_id
                  /\ disk.changes[k].change_date = DatetimeNow(clock))
           /\ \A k \in 1..Len(disk.projects) :
                ~(/\ disk.projects[k][1] = batch[i].list_id
                  /\ disk.projects[k][7] = DatetimeNow(clock))

\* ------------------------------------------------------------- C8
\* C8: the projects table never holds two rows with the same list_id.
C8_OneRowPerId ==
    \A i, j \in 1..Len(disk.projects) :
        i # j => disk.projects[i][1] # disk.projects[j][1]

\* ------------------------------------------------------------- C9
\* C9: the Change Log is append-only: across every step the committed log is
\* a prefix of the committed log after it, so every entry stays, unchanged and
\* in its place.
C9_AppendOnly == [][IsPrefix(disk.changes, disk'.changes)]_vars

\* The committed log holds entries of two different cycles.
C9_Witness ==
    \E i, j \in 1..Len(disk.changes) :
        i < j /\ disk.changes[i].change_date # disk.changes[j].change_date

\* ------------------------------------------------------------- C10
\* C10: a pass over a record whose five tracked fields all equal the stored
\* row's writes nothing: rows (last_updated included) and log stay as they are.
C10_Holds ==
    LET project == batch[idx]
        at == SelectProject(conn, project.list_id)
    IN (/\ CleanPass
        /\ at # 0
        /\ DifferingFields(conn.projects[at], project) = {})
       => conn' = conn

\* C10: an unchanged record writes nothing, of every step of every behaviour.
C10_UnchangedWritesNothing == [][C10_Holds]_vars

\* A record equal to its snapshot was reported unchanged, in a store that
\* holds a Change Entry.
C10_Witness ==
    /\ pc = "save"
    /\ conn.changes # <<>>
    /\ \E i \in 1..Len(outcomes) :
        /\ outcomes[i].kind = "unchanged"
        /\ IsValidId(batch[i].list_id)

\* ------------------------------------------------------------- C11
\* C11: duplicate id within one batch.  When the loop has run without storage
\* error over a batch of two records with the same non-empty id, the snapshot
\* holds the values of the second record, and every Change Entry written for
\* the second record has as old_value the value the first record supplied.
C11_DuplicateIdLastWriteWins ==
    (/\ LoopDone
     /\ Clean
     /\ Len(batch) = 2
     /\ IsValidId(batch[1].list_id)
     /\ batch[2].list_id = batch[1].list_id)
    => LET at == SelectProject(conn, batch[2].list_id)
           n == Len(conn.changes)
       IN /\ at # 0
          /\ DifferingFields(conn.projects[at], batch[2]) = {}
          /\ outcomes[2].n <= n
          /\ \A k \in (n - outcomes[2].n + 1)..n :
                /\ conn.changes[k].list_id = batch[2].list_id
                /\ conn.changes[k].old_value = batch[1][conn.changes[k].field_name]

\* ------------------------------------------------------------- C12
\* C12: whatever a step commits, every snapshot row stays in the table under
\* its id, and a row whose id does not occur in the current batch stays
\* identical, last_updated included, with no Change Entry appended for its id.
C12_Holds ==
    LET ids == {batch[i].list_id : i \in 1..Len(batch)}
        added == (Len(disk.changes) + 1)..Len(disk'.changes)
    IN \A i \in 1..Len(disk.projects) :
        /\ i <= Len(disk'.projects)
        /\ disk'.projects[i][1] = disk.projects[i][1]
        /\ disk.projects[i][1] \notin ids
            => /\ disk'.projects[i] = disk.projects[i]
               /\ \A k \in added : disk'.changes[k].list_id # disk.projects[i][1]

\* C12: rows absent from the batch are untouched and no row is ever deleted,
\* of every step of every behaviour.
C12_AbsentUntouched == [][C12_Holds]_vars

\* A cycle that logged a change of "a" has committed; the row of "b", absent
\* from its batch, is in the table.
C12_Witness ==
    /\ CycleSaved
    /\ \E i \in 1..Len(outcomes) : outcomes[i].kind = "updated"
    /\ \A i \in 1..Len(batch) : batch[i].list_id = "a"
    /\ SelectProject(disk, "b") # 0

\* ------------------------------------------------------------- C13
\* What a pass that printed "new" or "updated" for batch[j] wrote is in store.
Persisted(store, j) ==
    LET project == batch[j]
        now == DatetimeNow(clock)
    IN /\ outcomes[j].kind = "new"
          => \E i \in 1..Len(store.projects) :
                /\ store.projects[i][1] = project.list_id
                /\ store.projects[i][7] = now
                /\ DifferingFields(store.projects[i], project) = {}
       /\ outcomes[j].kind = "updated"
          => Cardinality({k \in 1..Len(store.changes) :
                /\ store.changes[k].list_id = project.list_id
                /\ store.changes[k].change_date = now
                /\ store.changes[k].new_value = project[store.changes[k].field_name]})
             >= outcomes[j].n

\* C13: a storage error in one record's pass does not stop the batch.  Once
\* the loop has ended every record has been visited, and after the commit the
\* writes of every record that follows a failed one are in the committed store.
C13_ErrorDoesNotStopBatch ==
    /\ (pc = "save" /\ idx > Len(batch)) => Len(outcomes) = Len(batch)
    /\ (CycleSaved /\ Len(outcomes) = Len(batch))
        => \A i, j \in 1..Len(outcomes) :
            (i < j /\ outcomes[i].kind = "error") => Persisted(disk, j)

\* ------------------------------------------------------------- C14
\* C14: while fetch_projects runs, and when it has failed for good, the store
\* is as the cycle found it; it fails for good on its third failed attempt,
\* and then the cycle is over without parse_projects or save_projects having
\* run.
C14_Holds ==
    /\ (pc = "fetch" \/ status' = "fetch_failed") => (disk' = disk /\ conn' = conn)
    /\ (pc = "fetch" /\ status' = "fetch_failed") => tries = Tries - 1
    /\ status' = "fetch_failed"
        => /\ pc' \in {"loop", "sleep"}
           /\ batch' = <<>>
           /\ outcomes' = <<>>

\* C14: an exhausted fetch aborts the cycle before reconciliation, of every
\* step of every behaviour.
C14_FetchFailureAborts == [][C14_Holds]_vars

\* The fetch of the second cycle has failed for good, over a store that holds
\* what the first cycle saved.
C14_Witness ==
    /\ status = "fetch_failed"
    /\ clock = 2
    /\ \E i \in 1..Len(disk.projects) : disk.projects[i][7] = DatetimeNow(1)

\* ------------------------------------------------------------- C15
\* C15: no error inside a cycle ends the runner.  Whatever the c-th cycle
\* does (exhausted fetch, failed connect, failed statement, failed commit), it
\* ends, and the next cycle is eventually started (up to the last cycle the
\* model starts).
C15_RunnerSurvives ==
    \A c \in 1..(MaxCycles - 1) : (clock = c) ~> (clock = c + 1)

\* The second cycle has started after a first one in which a storage
\* operation raised.
C15_Witness ==
    /\ clock = 2
    /\ pc = "fetch"
    /\ faults = 1

\* ------------------------------------------------------------- C16
\* C16: single-flight.  A cycle is started only from the main program's own
\* two call sites, when no cycle is in flight: the cycle before it, the
\* startup cycle included, has returned.
C16_Holds ==
    clock' # clock
    => /\ clock' = clock + 1
       /\ pc \in {"initial", "loop"}
       /\ status # "running"

\* C16: single-flight, of every step of every behaviour.
C16_SingleFlight == [][C16_Holds]_vars

\* The second cycle is in flight.
C16_Witness ==
    /\ clock = 2
    /\ status = "running"
    /\ pc = "save"

\* ------------------------------------------------------------- C17
\* C17: startup ordering.  setup_database comes first and creates the tables;
\* then the first cycle starts at once, from the startup call and with the
\* tables in place; the scheduling loop is entered only with that cycle over.
C17_Holds ==
    /\ pc = "setup" => (pc' = "initial" /\ tables' /\ clock' = 0)
    /\ pc = "initial" => (tables /\ clock = 0 /\ clock' = 1 /\ pc' = "fetch")
    /\ clock' # clock => tables
    /\ pc' \in {"loop", "sleep"} => (clock' >= 1 /\ status' \notin {"none", "running"})

\* C17: startup ordering, of every step of every behaviour.
C17_StartupOrdering == [][C17_Holds]_vars

\* The startup cycle has saved and the program is in its loop, no scheduled
\* cycle started yet.
C17_Witness ==
    /\ pc = "loop"
    /\ clock = 1
    /\ status = "saved"
    /\ tables

\* ------------------------------------------------------------- C18
\* C18: cycle-level durability.  The committed store changes in one step
\* only: the commit after the last record, which makes everything the
\* connection holds durable at once.  At every other point of a cycle it is
\* the store as the cycle found it.
C18_Holds ==
    disk' # disk
    => /\ pc = "save"
       /\ idx > Len(batch)
       /\ Len(outcomes) = Len(batch)
       /\ disk' = conn
       /\ status' = "saved"

\* C18: cycle-level durability, of every step of every behaviour.
C18_CycleDurability == [][C18_Holds]_vars

\* The loop has ended with the writes of two records pending, none durable.
C18_Witness ==
    /\ LoopDone
    /\ Len(outcomes) = 2
    /\ outcomes[1].kind = "new"
    /\ outcomes[2].kind = "new"
    /\ Len(conn.projects) = Len(disk.projects) + 2

\* ------------------------------------------------------------- C19
\* Every Change Entry of store carries the list_id of a row of store.
Referenced(store) ==
    \A k \in 1..Len(store.changes) :
        \E i \in 1..Len(store.projects) :
            store.projects[i][1] = store.changes[k].list_id

\* C19: referential integrity, of the committed store and of the store the
\* open connection sees.
C19_ReferentialIntegrity == Referenced(disk) /\ Referenced(conn)

\* A Change Entry this process logged has been committed.
C19_Witness ==
    /\ CycleSaved
    /\ \E k \in 1..Len(disk.changes) : disk.changes[k].change_date = DatetimeNow(clock)

\* ------------------------------------------------------------- C20
\* C20: audit-chain consistency.  With no storage error so far, after a cycle
\* has committed: a Change Entry of this cycle that is the last one of its id
\* and field has as new_value the snapshot's value of that field, and one that
\* follows an earlier entry of its id and field has as old_value that entry's
\* new_value.
C20_AuditChain ==
    (CycleSaved /\ faults = 0)
    => \A k \in 1..Len(disk.changes) :
        LET entry == disk.changes[k]
            same == {m \in 1..Len(disk.changes) :
                        /\ disk.changes[m].list_id = entry.list_id
                        /\ disk.changes[m].field_name = entry.field_name}
            before == {m \in same : m < k}
            at == SelectProject(disk, entry.list_id)
        IN entry.change_date = DatetimeNow(clock)
           => /\ (\A m \in same : m <= k)
                 => /\ at # 0
                    /\ disk.projects[at][FieldIndex(entry.field_name) + 1] = entry.new_value
              /\ before # {}
                 => LET last == CHOOSE m \in before : \A o \in before : o <= m
                    IN entry.old_value = disk.changes[last].new_value

====
